---- MODULE Spec2Model ----
(***************************************************************************)
(* Model of the combinatorics module of js-utils:                          *)
(*   yieldCombinationsWithoutRepetition  (generator, recursive backtrack)  *)
(*   uniqueProgressiveIncrementalCombinations (eager driver)               *)
(* Arrays are objects on a heap, so that identity (aliasing of the prefix  *)
(* buffer, copies made by arrayOrArrayLike) is part of the state.          *)
(* A generator object is a stack of recurse frames; a call of next() runs  *)
(* the frames step by step until the next yield or until completion, and   *)
(* nothing else runs meanwhile (JavaScript is single threaded).            *)
(* The functional module (curry, POJOCurry) is modelled by the curried     *)
(* functions made so far and the log of the callbacks and of fn they have  *)
(* invoked.                                                                *)
(***************************************************************************)
EXTENDS Integers, Sequences, FiniteSets, TLC

VARIABLES heap, gen, upic, caller, pulls, parked, lazy, fam, fns, log,
          writes

vars ==
  <<heap, gen, upic, caller, pulls, parked, lazy, fam, fns, log, writes>>

\* the state of the functional module (curry, POJOCurry)
curryVars == <<fam, fns, log>>

\* what the steps of one run of the combinatorics functions leave alone: a
\* second run kept aside, the lazy progressive generator, the functional
\* module, and the record of what the caller wrote into the arrays
elsewhere == <<parked, lazy, fam, fns, log, writes>>

(* ------------------------------ bounds -------------------------------- *)

\* longest input array explored
MaxLen == 4

\* calls of next() explored on a generator that has already completed
MaxPullsAfterDone == 2

\* element values of the input arrays (equal values may repeat)
Vals == {"a", "b", "c"}

\* how far below zero the requested combination sizes explored go
MaxNegK == 1

\* requested combination sizes explored (malformed ones included)
Ks == (0 - MaxNegK) .. (MaxLen + 1)

\* the value JavaScript gives for a read past the end of an array
Undefined == "undefined"

\* heap reference of the input array `items`
items == 1

\* "no array": value of a reference that has not been assigned yet
NoRef == 0

RECURSIVE SeqsOfLen(_)
SeqsOfLen(n) ==
  IF n = 0 THEN { <<>> }
  ELSE { Append(s, v) : s \in SeqsOfLen(n - 1), v \in Vals }

Inputs == UNION { SeqsOfLen(n) : n \in 0 .. MaxLen }

(* ------------------------- arrays on the heap ------------------------- *)

\* arr.length
ArrayLength(h, ref) == Len(h[ref])

\* arr[i], 0-based; undefined when i is out of range
ArrayGet(h, ref, i) ==
  IF i >= 0 /\ i < Len(h[ref]) THEN h[ref][i + 1] ELSE Undefined

\* arr.push(v)
ArrayPush(h, ref, v) == [h EXCEPT ![ref] = Append(@, v)]

\* mutant: the pop is forgotten
ArrayPopNothing(h, ref) == h

\* mutant: the pop is applied to the input array
ArrayPopFromItems(h, ref) ==
  [h EXCEPT ![items] = IF Len(@) = 0 THEN @ ELSE SubSeq(@, 1, Len(@) - 1)]

\* arr.pop(); a no-op on an empty array
ArrayPop(h, ref) ==
  [h EXCEPT ![ref] = IF Len(@) = 0 THEN @ ELSE SubSeq(@, 1, Len(@) - 1)]

\* a new array object with the given contents: the heap grows by one cell
NewArray(h, contents) == [heap |-> Append(h, contents), ref |-> Len(h) + 1]

\* mutant: no copy is made, the argument itself is returned
arrayOrArrayLikeNoCopy(h, arg) == [heap |-> h, ref |-> arg]

\* Array.prototype.slice.call(arg): a shallow copy in a new array object
arrayOrArrayLike(h, arg) == NewArray(h, h[arg])

(* ---------------------- the generator's pieces ------------------------ *)

\* the generator object before yieldCombinationsWithoutRepetition is called
NoGen ==
  [ state |-> "absent",
    numberOfItemsPerCombination |-> 0,
    yieldCopy |-> TRUE,
    l |-> 0,
    prefix |-> NoRef,
    stack |-> <<>>,
    out |-> [done |-> FALSE, value |-> NoRef],
    emitted |-> <<>> ]

\* calling the generator function: the body does not run yet
NewGen(k, yieldCopy) ==
  [ NoGen EXCEPT !.state = "suspendedStart",
                 !.numberOfItemsPerCombination = k,
                 !.yieldCopy = yieldCopy ]

\* a recurse frame that has just been called
Frame(nextIndex) == [nextIndex |-> nextIndex, i |-> nextIndex, at |-> "enter"]

Top(g) == g.stack[Len(g.stack)]

SetTop(g, f) == [g EXCEPT !.stack[Len(g.stack)] = f]

\* the positions i of the frames that are inside their loop body: the index
\* tuple of the combination under construction
IndexTuple(g) == [d \in 1 .. (Len(g.stack) - 1) |-> g.stack[d].i]

\* mutant: the base case is taken one element too late
BaseCaseOffByOne(h, g) ==
  ArrayLength(h, g.prefix) = g.numberOfItemsPerCombination + 1

\* mutant: the base case is taken with <= in place of ===
BaseCaseAtMost(h, g) ==
  ArrayLength(h, g.prefix) <= g.numberOfItemsPerCombination

\* if (prefix.length === numberOfItemsPerCombination)
BaseCase(h, g) == ArrayLength(h, g.prefix) = g.numberOfItemsPerCombination

\* mutant: the internal buffer is yielded whatever yieldCopy says
YieldedValueNeverCopy(h, g) == [heap |-> h, ref |-> g.prefix]

\* mutant: a copy is yielded whatever yieldCopy says
YieldedValueAlwaysCopy(h, g) == arrayOrArrayLike(h, g.prefix)

\* yieldCopy ? arrayOrArrayLike(prefix) : prefix
YieldedValue(h, g) ==
  IF g.yieldCopy THEN arrayOrArrayLike(h, g.prefix)
  ELSE [heap |-> h, ref |-> g.prefix]

\* mutant: the loop runs to the end of the input, without the pruning test
LoopConditionNoPruning(h, g, i) == i < g.l

\* mutant: the length of the input is read again at every test
LoopConditionRereadsLength(h, g, i) ==
  /\ i < ArrayLength(h, items)
  /\ g.numberOfItemsPerCombination - ArrayLength(h, g.prefix)
       <= ArrayLength(h, items) - i

\* mutant: strict comparison in the pruning test
LoopConditionStrict(h, g, i) ==
  /\ i < g.l
  /\ g.numberOfItemsPerCombination - ArrayLength(h, g.prefix) < g.l - i

\* i < l && numberOfItemsPerCombination - prefix.length <= l - i
LoopCondition(h, g, i) ==
  /\ i < g.l
  /\ g.numberOfItemsPerCombination - ArrayLength(h, g.prefix) <= g.l - i

\* mutant: the element at the frame's first index is pushed
PushedItemAtNextIndex(h, f) == ArrayGet(h, items, f.nextIndex)

\* items[i]
PushedItem(h, f) == ArrayGet(h, items, f.i)

\* mutant: the recursion restarts at the same index
NextIndexArgSame(i) == i

\* the nextIndex argument of the recursive call: i + 1
NextIndexArg(i) == i + 1

\* mutant: the loop variable is not advanced
LoopIncrementStuck(i) == i

\* i++
LoopIncrement(i) == i + 1

\* mutant: when the outermost frame returns the generator is ready to
\* start again
ReturnRestart(g) ==
  LET s == SubSeq(g.stack, 1, Len(g.stack) - 1)
  IN  IF s = <<>>
      THEN [g EXCEPT !.stack = s, !.state = "suspendedStart"]
      ELSE [g EXCEPT !.stack = s]

\* a frame returns; the generator completes when the outermost one does
Return(g) ==
  LET s == SubSeq(g.stack, 1, Len(g.stack) - 1)
  IN  IF s = <<>>
      THEN [g EXCEPT !.stack = s, !.state = "completed",
                     !.out = [done |-> TRUE, value |-> NoRef]]
      ELSE [g EXCEPT !.stack = s]

\* mutant: the prefix buffer is not local to the run, one buffer serves
\* every run on the same heap
GenStartSharedPrefix(h, g) ==
  LET a == IF Len(h) >= 2 THEN [heap |-> h, ref |-> 2] ELSE NewArray(h, <<>>)
  IN  [ heap |-> a.heap,
        gen  |-> [g EXCEPT !.state = "executing",
                           !.l = ArrayLength(h, items),
                           !.prefix = a.ref,
                           !.stack = << Frame(0) >>] ]

\* first next(): const l = items.length; const prefix = [];
\* yield* recurse(items, l, prefix, numberOfItemsPerCombination)
GenStart(h, g) ==
  LET a == NewArray(h, <<>>)
  IN  [ heap |-> a.heap,
        gen  |-> [g EXCEPT !.state = "executing",
                           !.l = ArrayLength(h, items),
                           !.prefix = a.ref,
                           !.stack = << Frame(0) >>] ]

\* a later next(): the frame suspended at its yield goes on
GenResume(g) == [g EXCEPT !.state = "executing"]

(* ------------------------------- state -------------------------------- *)

NoUpic ==
  [ pc |-> "idle",
    len |-> 0,
    last |-> NoRef,
    ret |-> <<>>,
    numberOfItemsPerCombination |-> 0,
    result |-> <<>> ]

\* no earlier run is kept aside
NoRun == [caller |-> "none", gen |-> NoGen, upic |-> NoUpic]

\* the run in progress, as it is kept aside while another one is used
ThisRun == [caller |-> caller, gen |-> gen, upic |-> upic]

\* the lazy progressive generator has not been called
NoLazy == [pc |-> "idle", len |-> 0, numberOfItemsPerCombination |-> 0,
           out |-> <<>>]

\* neither curry nor POJOCurry has been called
NoFam ==
  [ kind |-> "none",
    expectedNumberOfArgs |-> 0,
    onFnCall |-> FALSE,
    onCurriedFnFirstCall |-> FALSE,
    plugPropertyMustBeTruthy |-> FALSE,
    curriedFnFirstCall |-> TRUE,
    supplied |-> 0,
    calls |-> 0 ]

Init ==
  /\ \E input \in Inputs : heap = << input >>
  /\ gen = NoGen
  /\ upic = NoUpic
  /\ caller = "none"
  /\ pulls = 0
  /\ parked = NoRun
  /\ lazy = NoLazy
  /\ fam = NoFam
  /\ fns = <<>>
  /\ log = <<>>
  /\ writes = <<>>

(* ------------------- steps of a running generator --------------------- *)

\* recurse, base case: the combination is complete and is yielded
RecurseYield ==
  /\ gen.state = "executing"
  /\ Top(gen).at = "enter"
  /\ BaseCase(heap, gen)
  /\ LET y == YieldedValue(heap, gen)
         e == [ref |-> y.ref, idx |-> IndexTuple(gen), snap |-> y.heap[y.ref]]
     IN  /\ heap' = y.heap
         /\ gen' = [SetTop(gen, [Top(gen) EXCEPT !.at = "yield"])
                      EXCEPT !.state = "suspendedYield",
                             !.out = [done |-> FALSE, value |-> y.ref],
                             !.emitted = Append(@, e)]
  /\ UNCHANGED <<upic, caller, pulls>>
  /\ UNCHANGED elsewhere

\* recurse, recurrent case: the loop starts with i = nextIndex
RecurseLoopInit ==
  /\ gen.state = "executing"
  /\ Top(gen).at = "enter"
  /\ ~ BaseCase(heap, gen)
  /\ gen' = SetTop(gen, [Top(gen) EXCEPT !.i = Top(gen).nextIndex,
                                         !.at = "test"])
  /\ UNCHANGED <<heap, upic, caller, pulls>>
  /\ UNCHANGED elsewhere

\* loop body: prefix.push(items[i]); yield* recurse(..., i + 1)
RecurseLoopBody ==
  /\ gen.state = "executing"
  /\ Top(gen).at = "test"
  /\ LoopCondition(heap, gen, Top(gen).i)
  /\ heap' = ArrayPush(heap, gen.prefix, PushedItem(heap, Top(gen)))
  /\ gen' = [gen EXCEPT !.stack =
               Append(SetTop(gen, [Top(gen) EXCEPT !.at = "call"]).stack,
                      Frame(NextIndexArg(Top(gen).i)))]
  /\ UNCHANGED <<upic, caller, pulls>>
  /\ UNCHANGED elsewhere

\* the inner recurse has returned: prefix.pop(); i++
RecurseLoopNext ==
  /\ gen.state = "executing"
  /\ Top(gen).at = "call"
  /\ heap' = ArrayPop(heap, gen.prefix)
  /\ gen' = SetTop(gen, [Top(gen) EXCEPT !.i = LoopIncrement(@),
                                         !.at = "test"])
  /\ UNCHANGED <<upic, caller, pulls>>
  /\ UNCHANGED elsewhere

\* the loop condition fails, or the frame is resumed after its yield:
\* the frame returns
RecurseReturn ==
  /\ gen.state = "executing"
  /\ \/ Top(gen).at = "yield"
     \/ Top(gen).at = "test" /\ ~ LoopCondition(heap, gen, Top(gen).i)
  /\ gen' = Return(gen)
  /\ UNCHANGED <<heap, upic, caller, pulls>>
  /\ UNCHANGED elsewhere

(* ----------------------- the direct consumer -------------------------- *)

\* yieldCombinationsWithoutRepetition(items, k, yieldCopy)
ConsumerCreate ==
  /\ caller = "none"
  /\ \E k \in Ks, yieldCopy \in BOOLEAN : gen' = NewGen(k, yieldCopy)
  /\ caller' = "consumer"
  /\ UNCHANGED <<heap, upic, pulls>>
  /\ UNCHANGED elsewhere

\* next() on a generator that has not completed
ConsumerNext ==
  /\ caller = "consumer"
  /\ \/ /\ gen.state = "suspendedStart"
        /\ LET s == GenStart(heap, gen)
           IN  heap' = s.heap /\ gen' = s.gen
     \/ /\ gen.state = "suspendedYield"
        /\ gen' = GenResume(gen)
        /\ heap' = heap
  /\ UNCHANGED <<upic, caller, pulls>>
  /\ UNCHANGED elsewhere

\* next() on a completed generator: { value: undefined, done: true }
ConsumerNextDone ==
  /\ caller = "consumer"
  /\ gen.state = "completed"
  /\ pulls < MaxPullsAfterDone
  /\ pulls' = pulls + 1
  /\ gen' = [gen EXCEPT !.out = [done |-> TRUE, value |-> NoRef]]
  /\ UNCHANGED <<heap, upic, caller>>
  /\ UNCHANGED elsewhere

(* ------------- uniqueProgressiveIncrementalCombinations --------------- *)

\* mutant: the empty input is not special-cased
IsEmptyInputNever(len) == FALSE

\* if (len === 0)
IsEmptyInput(len) == len = 0

\* if (len === 1)
IsSingleInput(len) == len = 1

\* mutant: the loop also runs for the full size
SizeLoopConditionInclusive(k, len) == k <= len

\* mutant: the loop stops one size early
SizeLoopConditionShort(k, len) == k < len - 1

\* numberOfItemsPerCombination < len
SizeLoopCondition(k, len) == k < len

\* an entry of the returned list: the array, and the input positions it
\* was built from
Entry(ref, idx) == [ref |-> ref, idx |-> idx]

\* items.map(item => ret.push([item])), element j onwards: one new
\* one-element array per input element, in input order
RECURSIVE PushSingletons(_, _, _, _)
PushSingletons(h, ret, j, len) ==
  IF j >= len THEN [heap |-> h, ret |-> ret]
  ELSE LET a == NewArray(h, << ArrayGet(h, items, j) >>)
       IN  PushSingletons(a.heap, Append(ret, Entry(a.ref, << j >>)),
                          j + 1, len)

\* the positions 0 .. len-1 of the whole input
WholeTuple(len) == [d \in 1 .. len |-> d - 1]

\* the call, up to the loop over the sizes (or to its return when there
\* is no such loop)
UpicCall ==
  /\ caller = "none"
  /\ caller' = "upic"
  /\ LET len == ArrayLength(heap, items)
         c   == arrayOrArrayLike(heap, items)
         lastE == Entry(c.ref, WholeTuple(len))
         m   == PushSingletons(c.heap, <<>>, 0, len)
     IN  IF IsEmptyInput(len)
         THEN /\ upic' = [upic EXCEPT !.pc = "returned", !.len = len,
                                      !.result = <<>>]
              /\ heap' = heap
         ELSE IF IsSingleInput(len)
         THEN /\ upic' = [upic EXCEPT !.pc = "returned", !.len = len,
                                      !.last = c.ref,
                                      !.result = << lastE >>]
              /\ heap' = c.heap
         ELSE IF len > 2
         THEN /\ upic' = [upic EXCEPT !.pc = "for", !.len = len,
                            !.last = c.ref, !.ret = m.ret,
                            !.numberOfItemsPerCombination = 2]
              /\ heap' = m.heap
         ELSE /\ upic' = [upic EXCEPT !.pc = "returned", !.len = len,
                            !.last = c.ref, !.ret = Append(m.ret, lastE),
                            !.result = Append(m.ret, lastE)]
              /\ heap' = m.heap
  /\ UNCHANGED <<gen, pulls>>
  /\ UNCHANGED elsewhere

\* head of the loop over the sizes: the next fixed-size generator is
\* created
UpicForSize ==
  /\ caller = "upic"
  /\ upic.pc = "for"
  /\ SizeLoopCondition(upic.numberOfItemsPerCombination, upic.len)
  /\ gen' = NewGen(upic.numberOfItemsPerCombination, TRUE)
  /\ upic' = [upic EXCEPT !.pc = "forof"]
  /\ UNCHANGED <<heap, caller, pulls>>
  /\ UNCHANGED elsewhere

\* the loop over the sizes is over: ret.push(last); return ret
UpicReturn ==
  /\ caller = "upic"
  /\ upic.pc = "for"
  /\ ~ SizeLoopCondition(upic.numberOfItemsPerCombination, upic.len)
  /\ LET r == Append(upic.ret, Entry(upic.last, WholeTuple(upic.len)))
     IN  upic' = [upic EXCEPT !.pc = "returned", !.ret = r, !.result = r]
  /\ UNCHANGED <<heap, gen, caller, pulls>>
  /\ UNCHANGED elsewhere

\* for (const combination of ...): the first next()
UpicForOfFirst ==
  /\ caller = "upic"
  /\ upic.pc = "forof"
  /\ gen.state = "suspendedStart"
  /\ LET s == GenStart(heap, gen)
     IN  heap' = s.heap /\ gen' = s.gen
  /\ UNCHANGED <<upic, caller, pulls>>
  /\ UNCHANGED elsewhere

\* the body, ret.push(combination), and the next next()
UpicForOfBody ==
  /\ caller = "upic"
  /\ upic.pc = "forof"
  /\ gen.state = "suspendedYield"
  /\ upic' = [upic EXCEPT !.ret =
               Append(@, Entry(gen.out.value,
                               gen.emitted[Len(gen.emitted)].idx))]
  /\ gen' = GenResume(gen)
  /\ UNCHANGED <<heap, caller, pulls>>
  /\ UNCHANGED elsewhere

\* next() reported done: numberOfItemsPerCombination++
UpicForOfDone ==
  /\ caller = "upic"
  /\ upic.pc = "forof"
  /\ gen.state = "completed"
  /\ upic' = [upic EXCEPT !.pc = "for",
                          !.numberOfItemsPerCombination = @ + 1]
  /\ UNCHANGED <<heap, gen, caller, pulls>>
  /\ UNCHANGED elsewhere

Next ==
  \/ RecurseYield
  \/ RecurseLoopInit
  \/ RecurseLoopBody
  \/ RecurseLoopNext
  \/ RecurseReturn
  \/ ConsumerCreate
  \/ ConsumerNext
  \/ ConsumerNextDone
  \/ UpicCall
  \/ UpicForSize
  \/ UpicReturn
  \/ UpicForOfFirst
  \/ UpicForOfBody
  \/ UpicForOfDone

Spec == Init /\ [][Next]_vars

\* a call of next() runs to its yield or to completion: the steps of an
\* executing generator are never postponed forever
GenStepAction ==
  \/ RecurseYield
  \/ RecurseLoopInit
  \/ RecurseLoopBody
  \/ RecurseLoopNext
  \/ RecurseReturn

FairSpec == Spec /\ WF_vars(GenStepAction)

(* ------------------------- two runs on one input ---------------------- *)

\* longest input array explored with two runs
MaxLenTwoRuns == 3

\* element values of the input arrays explored with two runs
ValsTwoRuns == {"a", "b"}

\* a second generator is created on the same items with the same size,
\* while the first one is left where it is (not yet started, suspended
\* at a yield, or completed)
SecondRun ==
  /\ parked = NoRun
  /\ caller = "consumer"
  /\ gen.state \in {"suspendedStart", "suspendedYield", "completed"}
  /\ parked' = ThisRun
  /\ \E yieldCopy \in BOOLEAN :
       gen' = NewGen(gen.numberOfItemsPerCombination, yieldCopy)
  /\ pulls' = 0
  /\ UNCHANGED <<heap, upic, caller, lazy>>
  /\ UNCHANGED <<curryVars, writes>>

\* the consumer turns to the other generator: the two are pulled in any
\* interleaved order, never one while the other is executing
SwitchRun ==
  /\ parked.caller = "consumer"
  /\ caller = "consumer"
  /\ gen.state \in {"suspendedStart", "suspendedYield", "completed"}
  /\ parked.gen.state # "completed"
  /\ parked' = ThisRun
  /\ gen' = parked.gen
  /\ UNCHANGED <<heap, upic, caller, pulls, lazy>>
  /\ UNCHANGED <<curryVars, writes>>

\* uniqueProgressiveIncrementalCombinations has returned; its result is
\* kept and another call on the same input can follow
AnotherCall ==
  /\ parked = NoRun
  /\ caller = "upic"
  /\ upic.pc = "returned"
  /\ parked' = ThisRun
  /\ caller' = "none"
  /\ upic' = NoUpic
  /\ gen' = NoGen
  /\ UNCHANGED <<heap, pulls, lazy>>
  /\ UNCHANGED <<curryVars, writes>>

(* ------------- yieldUniqueProgressiveIncrementalCombinations ---------- *)

\* the sizes 1 .. n, the full range
LazySizeLoopCondition(k, len) == k <= len

\* the lazy variant is called and pulled for the first time
LazyCall ==
  /\ caller = "none"
  /\ caller' = "lazy"
  /\ lazy' = [pc |-> "for", len |-> ArrayLength(heap, items),
              numberOfItemsPerCombination |-> 1, out |-> <<>>]
  /\ UNCHANGED <<heap, gen, upic, pulls, parked>>
  /\ UNCHANGED <<curryVars, writes>>

\* the next size: its fixed-size generator is created, to be delegated to
LazyForSize ==
  /\ caller = "lazy"
  /\ lazy.pc = "for"
  /\ LazySizeLoopCondition(lazy.numberOfItemsPerCombination, lazy.len)
  /\ gen' = NewGen(lazy.numberOfItemsPerCombination, TRUE)
  /\ lazy' = [lazy EXCEPT !.pc = "delegate"]
  /\ UNCHANGED <<heap, upic, caller, pulls, parked>>
  /\ UNCHANGED <<curryVars, writes>>

\* all sizes are done: the lazy sequence is over
LazyDone ==
  /\ caller = "lazy"
  /\ lazy.pc = "for"
  /\ ~ LazySizeLoopCondition(lazy.numberOfItemsPerCombination, lazy.len)
  /\ lazy' = [lazy EXCEPT !.pc = "done"]
  /\ UNCHANGED <<heap, gen, upic, caller, pulls, parked>>
  /\ UNCHANGED <<curryVars, writes>>

\* the fixed-size generator of the current size is started
LazyDelegateFirst ==
  /\ caller = "lazy"
  /\ lazy.pc = "delegate"
  /\ gen.state = "suspendedStart"
  /\ LET s == GenStart(heap, gen)
     IN  heap' = s.heap /\ gen' = s.gen
  /\ UNCHANGED <<upic, caller, pulls, parked, lazy>>
  /\ UNCHANGED <<curryVars, writes>>

\* its combination is passed on to the consumer, who pulls again
LazyDelegateYield ==
  /\ caller = "lazy"
  /\ lazy.pc = "delegate"
  /\ gen.state = "suspendedYield"
  /\ lazy' = [lazy EXCEPT !.out =
               Append(@, Entry(gen.out.value,
                               gen.emitted[Len(gen.emitted)].idx))]
  /\ gen' = GenResume(gen)
  /\ UNCHANGED <<heap, upic, caller, pulls, parked>>
  /\ UNCHANGED <<curryVars, writes>>

\* the current size is exhausted: on to the next one
LazyDelegateDone ==
  /\ caller = "lazy"
  /\ lazy.pc = "delegate"
  /\ gen.state = "completed"
  /\ lazy' = [lazy EXCEPT !.pc = "for",
                          !.numberOfItemsPerCombination = @ + 1]
  /\ UNCHANGED <<heap, gen, upic, caller, pulls, parked>>
  /\ UNCHANGED <<curryVars, writes>>

InitTwoRuns ==
  /\ Init
  /\ Len(heap[items]) <= MaxLenTwoRuns
  /\ \A j \in DOMAIN heap[items] : heap[items][j] \in ValsTwoRuns

NextTwoRuns ==
  \/ Next
  \/ SecondRun
  \/ SwitchRun
  \/ AnotherCall
  \/ LazyCall
  \/ LazyForSize
  \/ LazyDone
  \/ LazyDelegateFirst
  \/ LazyDelegateYield
  \/ LazyDelegateDone

SpecTwoRuns == InitTwoRuns /\ [][NextTwoRuns]_vars

(* ------------- the caller writes into the arrays it can reach --------- *)

\* longest input array explored when the caller writes into it
MaxLenWrites == 3

\* most writes of the caller in one behaviour
MaxWrites == 2

\* element values of the input arrays explored when the caller writes
ValsWrites == {"a"}

\* the value the caller writes
WrittenValue == "w"

\* a write of the caller as it is remembered: the array and position
\* written, the value before and after, the length of the array before, and
\* where the generator stood: how many combinations it had emitted, which
\* positions were in the prefix, whether it had been pulled at all
Write(kind, ref, j, new) ==
  [ kind |-> kind, ref |-> ref, j |-> j,
    old |-> ArrayGet(heap, ref, j), new |-> new,
    lenBefore |-> ArrayLength(heap, ref),
    at |-> Len(gen.emitted),
    chosen |-> IndexTuple(gen),
    started |-> gen.state # "suspendedStart" ]

\* the generator is suspended between two pulls of the caller, or has not
\* been pulled yet
BetweenPulls ==
  /\ caller = "consumer"
  /\ gen.state \in {"suspendedStart", "suspendedYield"}
  /\ Len(writes) < MaxWrites

\* items[j] = v, between two pulls
OverwriteItem ==
  /\ BetweenPulls
  /\ \E j \in 0 .. (ArrayLength(heap, items) - 1) :
       /\ heap' = [heap EXCEPT ![items][j + 1] = WrittenValue]
       /\ writes' = Append(writes, Write("overwrite", items, j, WrittenValue))
  /\ UNCHANGED <<gen, upic, caller, pulls, parked, lazy>>
  /\ UNCHANGED curryVars

\* items.push(v), between two pulls
AppendItem ==
  /\ BetweenPulls
  /\ heap' = ArrayPush(heap, items, WrittenValue)
  /\ writes' = Append(writes, Write("append", items,
                                    ArrayLength(heap, items), WrittenValue))
  /\ UNCHANGED <<gen, upic, caller, pulls, parked, lazy>>
  /\ UNCHANGED curryVars

\* items.pop(), between two pulls
TruncateItems ==
  /\ BetweenPulls
  /\ ArrayLength(heap, items) > 0
  /\ heap' = ArrayPop(heap, items)
  /\ writes' = Append(writes, Write("truncate", items,
                                    ArrayLength(heap, items) - 1, Undefined))
  /\ UNCHANGED <<gen, upic, caller, pulls, parked, lazy>>
  /\ UNCHANGED curryVars

\* the arrays the caller holds once the list is returned: the input and the
\* arrays of the list
HeldArrays == {items} \cup { upic.result[p].ref : p \in DOMAIN upic.result }

\* arr[j] = v on the input or on a returned combination, after
\* uniqueProgressiveIncrementalCombinations has returned
OverwriteReturned ==
  /\ caller = "upic"
  /\ upic.pc = "returned"
  /\ Len(writes) < MaxWrites
  /\ \E ref \in HeldArrays :
       \E j \in 0 .. (ArrayLength(heap, ref) - 1) :
         /\ heap' = [heap EXCEPT ![ref][j + 1] = WrittenValue]
         /\ writes' = Append(writes, Write("returned", ref, j, WrittenValue))
  /\ UNCHANGED <<gen, upic, caller, pulls, parked, lazy>>
  /\ UNCHANGED curryVars

InitWrites ==
  /\ Init
  /\ Len(heap[items]) <= MaxLenWrites
  /\ \A j \in DOMAIN heap[items] : heap[items][j] \in ValsWrites

NextWrites ==
  \/ Next
  \/ OverwriteItem
  \/ AppendItem
  \/ TruncateItems
  \/ OverwriteReturned

SpecWrites == InitWrites /\ [][NextWrites]_vars

(* ------------------------------- curry -------------------------------- *)

\* largest arity of fn explored
MaxArity == 2

\* most arguments passed in one call of a curried function
MaxAdded == 2

\* most calls of curried functions of one family explored
MaxCurryCalls == 2

\* the placeholder _ ; effective arguments are the numbers 1, 2, ... in the
\* order the caller supplies them, so that each one can be told apart
Placeholder == 0

\* undefined, as an element of an argument array
UndefinedArg == 0 - 1

\* the return values of an onFnCall callback: proceedCallingFn, or anything
\* else
OnFnCallReturns == {"proceedCallingFn", "other"}

\* the shapes of an argument list: which positions hold a placeholder
RECURSIVE ShapesOfLen(_)
ShapesOfLen(n) ==
  IF n = 0 THEN { <<>> }
  ELSE { Append(s, b) : s \in ShapesOfLen(n - 1), b \in BOOLEAN }

Shapes == UNION { ShapesOfLen(n) : n \in 0 .. MaxAdded }

\* the number of effective arguments among the first j of a shape
RECURSIVE EffectiveBefore(_, _)
EffectiveBefore(shape, j) ==
  IF j = 0 THEN 0
  ELSE EffectiveBefore(shape, j - 1) + (IF shape[j] THEN 0 ELSE 1)

\* the argument list of a shape: placeholders where it says so, and fresh
\* effective arguments elsewhere
ArgsOfShape(shape, supplied) ==
  [j \in DOMAIN shape |->
     IF shape[j] THEN Placeholder ELSE supplied + EffectiveBefore(shape, j)]

\* arr[i] = v, 0-based; positions skipped over read as undefined
SetAt(arr, i, v) ==
  [j \in 1 .. (IF i + 1 > Len(arr) THEN i + 1 ELSE Len(arr)) |->
     IF j = i + 1 THEN v
     ELSE IF j <= Len(arr) THEN arr[j] ELSE UndefinedArg]

\* an invocation of a callback or of fn, or the return of a call; f is the
\* curried function called, g the curried function returned or announced,
\* chain the argument lists of the calls that led here, ret what the callback
\* returned where the library looks at it
Event(ev, f, g, args, chain) ==
  [ ev |-> ev, f |-> f, g |-> g, args |-> args, chain |-> chain,
    ret |-> "ignored" ]

\* const shouldCallCurriedFn = onFnCall({ args, fn, curriedFn })
OnFnCallEvent(f, args, chain, ret) ==
  [Event("onFnCall", f, 0, args, chain) EXCEPT !.ret = ret]

\* mutant: fn is called whatever onFnCall returns
ProceedsAlways(ret) == TRUE

\* shouldCallCurriedFn === proceedCallingFn
Proceeds(ret) == ret = "proceedCallingFn"

\* the end of a call whose arguments are complete: onFnCall if given, then
\* fn unless the callback said otherwise, then the return
CallFn(f, args, chain, ret) ==
  IF fam.onFnCall
  THEN IF Proceeds(ret)
       THEN << OnFnCallEvent(f, args, chain, ret),
               Event("fn", f, 0, args, chain),
               Event("returnFn", f, 0, args, chain) >>
       ELSE << OnFnCallEvent(f, args, chain, ret),
               Event("returnOther", f, 0, args, chain) >>
  ELSE << Event("fn", f, 0, args, chain),
          Event("returnFn", f, 0, args, chain) >>

\* mutant: the callback is told the new function was the one called
NewCurriedFnSwapped(f, g, args, chain) ==
  << Event("onNewCurriedFn", g, f, args, chain),
     Event("returnCurried", f, g, args, chain) >>

\* onNewCurriedFn({ curriedFn, newCurriedFn: newCurried }); return newCurried
NewCurriedFn(f, g, args, chain) ==
  << Event("onNewCurriedFn", f, g, args, chain),
     Event("returnCurried", f, g, args, chain) >>

\* the closure made by curriedInner(expectedNumberOfArgs,
\* nextParameterIndex, placeholdersIndices, ...args)
Closure(expectedNumberOfArgs, nextParameterIndex, placeholdersIndices, args, chain) ==
  [ expectedNumberOfArgs |-> expectedNumberOfArgs,
    nextParameterIndex |-> nextParameterIndex,
    placeholdersIndices |-> placeholdersIndices,
    args |-> args,
    chain |-> chain ]

\* the locals of curriedFn before its loop
LoopStart(c) ==
  [ args |-> c.args,
    newExpectedNumberOfArgs |-> c.expectedNumberOfArgs,
    newNextParameterIndex |-> c.nextParameterIndex,
    isNull |-> TRUE,
    newPlaceholdersIndices |-> <<>>,
    numberOfConsumablePlaceholders |-> Len(c.placeholdersIndices),
    events |-> <<>> ]

\* mutant: an effective argument is written at the next fresh index even
\* when a placeholder is pending
ConsumesPlaceholderNever(st, addedArg) == FALSE

\* if (numberOfConsumablePlaceholders > 0 && !isPlaceholder)
ConsumesPlaceholder(st, addedArg) ==
  st.numberOfConsumablePlaceholders > 0 /\ addedArg # Placeholder

\* one turn of the loop over addedArgs, in the curried function f with
\* closure c
AddArg(st, c, f, addedArg) ==
  IF ConsumesPlaceholder(st, addedArg)
  THEN LET ph == IF st.isNull THEN c.placeholdersIndices
                 ELSE st.newPlaceholdersIndices
       IN  [ st EXCEPT
               !.events = Append(@, Event("onEffectiveArgAdded", f, 0,
                                          st.args, << << addedArg >> >>)),
               !.isNull = FALSE,
               !.newPlaceholdersIndices = Tail(ph),
               !.args = SetAt(@, Head(ph), addedArg),
               !.numberOfConsumablePlaceholders = @ - 1,
               !.newExpectedNumberOfArgs = @ - 1 ]
  ELSE IF addedArg = Placeholder
  THEN [ st EXCEPT
           !.isNull = FALSE,
           !.newPlaceholdersIndices =
              IF st.isNull
              THEN Append(c.placeholdersIndices, st.newNextParameterIndex)
              ELSE Append(@, st.newNextParameterIndex),
           !.events = Append(@, Event("onPlaceholder", f, 0, st.args, <<>>)),
           !.args = SetAt(@, st.newNextParameterIndex, addedArg),
           !.newNextParameterIndex = @ + 1 ]
  ELSE [ st EXCEPT
           !.newExpectedNumberOfArgs = @ - 1,
           !.events = Append(@, Event("onEffectiveArgAdded", f, 0,
                                      st.args, << << addedArg >> >>)),
           !.args = SetAt(@, st.newNextParameterIndex, addedArg),
           !.newNextParameterIndex = @ + 1 ]

\* for (const addedArg of addedArgs), from the j-th argument on
RECURSIVE AddArgs(_, _, _, _, _)
AddArgs(st, c, f, addedArgs, j) ==
  IF j > Len(addedArgs) THEN st
  ELSE AddArgs(AddArg(st, c, f, addedArgs[j]), c, f, addedArgs, j + 1)

\* mutant: fn is called as soon as one argument is still missing
ReadyToCallEarly(expectedNumberOfArgs) == expectedNumberOfArgs <= 1

\* if (expectedNumberOfArgs <= 0)
ReadyToCall(expectedNumberOfArgs) == expectedNumberOfArgs <= 0

\* mutant: the flag is never cleared
FirstCallFlagAfterStuck(flag) == flag

\* curriedFnFirstCall && (... || true) && (curriedFnFirstCall = false)
FirstCallFlagAfter(flag) == FALSE

\* curriedFnFirstCall && onCurriedFnFirstCall({ addedArgs, fn, curriedFn })
FirstCallEvents(f, addedArgs) ==
  IF fam.curriedFnFirstCall /\ fam.onCurriedFnFirstCall
  THEN << Event("onCurriedFnFirstCall", f, 0, addedArgs, <<>>) >>
  ELSE <<>>

\* curry(fn, { arity, onFnCall, ... }): the first curried function is made
\* and announced to onNewCurriedFn
CurryCreate ==
  /\ fam.kind = "none"
  /\ \E arity \in 0 .. MaxArity, given \in BOOLEAN, first \in BOOLEAN :
       fam' = [NoFam EXCEPT !.kind = "curry",
                            !.expectedNumberOfArgs = arity,
                            !.onFnCall = given,
                            !.onCurriedFnFirstCall = first]
  /\ fns' = << Closure(fam'.expectedNumberOfArgs, 0, <<>>, <<>>, <<>>) >>
  /\ log' = << Event("onNewCurriedFn", 1, 1, <<>>, <<>>) >>
  /\ UNCHANGED <<heap, gen, upic, caller, pulls, parked, lazy, writes>>

\* curriedFn(...addedArgs) on any curried function of the family, through
\* curried(...) to its return
CurriedFnCall ==
  /\ fam.kind = "curry"
  /\ fam.calls < MaxCurryCalls
  /\ \E f \in DOMAIN fns, shape \in Shapes, ret \in OnFnCallReturns :
       LET c == fns[f]
           addedArgs == ArgsOfShape(shape, fam.supplied)
           chain == Append(c.chain, addedArgs)
           st == AddArgs(LoopStart(c), c, f, addedArgs, 1)
           placeholdersIndices ==
             IF st.isNull THEN c.placeholdersIndices
             ELSE st.newPlaceholdersIndices
           before == log \o FirstCallEvents(f, addedArgs) \o st.events
           g == Len(fns) + 1
       IN  /\ fam' = [fam EXCEPT
                        !.curriedFnFirstCall = FirstCallFlagAfter(@),
                        !.supplied = @ + EffectiveBefore(shape, Len(shape)),
                        !.calls = @ + 1]
           /\ IF ReadyToCall(st.newExpectedNumberOfArgs)
              THEN /\ fns' = [fns EXCEPT ![f].args = st.args]
                   /\ log' = before \o CallFn(f, st.args, chain, ret)
              ELSE /\ fns' = Append([fns EXCEPT ![f].args = st.args],
                                    Closure(st.newExpectedNumberOfArgs,
                                            st.newNextParameterIndex,
                                            placeholdersIndices,
                                            st.args, chain))
                   /\ log' = before \o NewCurriedFn(f, g, st.args, chain)
  /\ UNCHANGED <<heap, gen, upic, caller, pulls, parked, lazy, writes>>

(* ------------------------------ POJOCurry ----------------------------- *)

\* plugPropertyName = "plugCurried"
plugPropertyName == "plugCurried"

\* the property names of the objects explored
Props == {"p", plugPropertyName}

\* the property values explored: one falsy, one truthy
PropValues == {0, 1}

\* the plain objects explored: some properties, each with a value
Objects == UNION { [ps -> PropValues] : ps \in SUBSET Props }

\* {}
EmptyObject == [k \in {} |-> 0]

\* Object.assign({}, a, b): a property of b overrides the same property of a
ObjectAssign(a, b) ==
  [k \in DOMAIN a \cup DOMAIN b |-> IF k \in DOMAIN b THEN b[k] ELSE a[k]]

\* const { [name]: ignored, ...rest } = obj
Without(obj, name) == [k \in DOMAIN obj \ {name} |-> obj[k]]

\* isObjectEmpty(obj)
isObjectEmpty(obj) == DOMAIN obj = {}

\* mutant: owning the plug property is enough, whatever its value
PluggedWhenOwned(POJO) == plugPropertyName \in DOMAIN POJO

\* hasOwnProperty.call(POJO, plugPropertyName) &&
\* (!plugPropertyMustBeTruthy || POJO[plugPropertyName])
Plugged(POJO) ==
  /\ plugPropertyName \in DOMAIN POJO
  /\ ~ fam.plugPropertyMustBeTruthy \/ POJO[plugPropertyName] # 0

\* the closure made by curriedInner(accPOJO)
POJOClosure(accPOJO, chain) == [accPOJO |-> accPOJO, chain |-> chain]

\* POJOCurry(fn, { plugPropertyMustBeTruthy, onFnCall, ... }): the first
\* curried function is made and announced to onNewCurriedFn
POJOCurryCreate ==
  /\ fam.kind = "none"
  /\ \E truthy \in BOOLEAN, given \in BOOLEAN, first \in BOOLEAN :
       fam' = [NoFam EXCEPT !.kind = "pojo",
                            !.plugPropertyMustBeTruthy = truthy,
                            !.onFnCall = given,
                            !.onCurriedFnFirstCall = first]
  /\ fns' = << POJOClosure(EmptyObject, <<>>) >>
  /\ log' = << Event("onNewCurriedFn", 1, 1, EmptyObject, <<>>) >>
  /\ UNCHANGED <<heap, gen, upic, caller, pulls, parked, lazy, writes>>

\* curriedFn(POJOArg) on any curried function of the family, to its return;
\* POJOArg is an object or undefined
POJOCurriedFnCall ==
  /\ fam.kind = "pojo"
  /\ fam.calls < MaxCurryCalls
  /\ \E f \in DOMAIN fns, defined \in BOOLEAN, obj \in Objects,
        ret \in OnFnCallReturns :
       LET c == fns[f]
           POJOArg == IF defined THEN obj ELSE EmptyObject
           chain == Append(c.chain, POJOArg)
           POJO == ObjectAssign(c.accPOJO, POJOArg)
           rest == Without(POJOArg, plugPropertyName)
           POJORest == Without(POJO, plugPropertyName)
           before == log \o FirstCallEvents(f, << POJOArg >>)
           g == Len(fns) + 1
       IN  /\ ~ defined => obj = EmptyObject
           /\ fam' = [fam EXCEPT
                        !.curriedFnFirstCall = FirstCallFlagAfter(@),
                        !.calls = @ + 1]
           /\ IF Plugged(POJO)
              THEN /\ fns' = fns
                   /\ log' =
                        IF ~ defined
                        THEN before \o
                             << Event("TypeError", f, 0, POJO, chain) >>
                        ELSE before
                             \o (IF ~ isObjectEmpty(rest)
                                 THEN << Event("onPOJOArgMerged", f, 0,
                                               POJORest, << rest >>) >>
                                 ELSE <<>>)
                             \o CallFn(f, POJORest, chain, ret)
              ELSE /\ fns' = Append(fns, POJOClosure(POJO, chain))
                   /\ log' = before \o
                             << Event("onPOJOArgMerged", f, 0, POJO,
                                      << POJOArg >>) >>
                             \o NewCurriedFn(f, g, POJO, chain)
  /\ UNCHANGED <<heap, gen, upic, caller, pulls, parked, lazy, writes>>

\* the functional module alone: the combinatorics state stays as it is
InitCurry ==
  /\ heap = << <<>> >>
  /\ gen = NoGen
  /\ upic = NoUpic
  /\ caller = "none"
  /\ pulls = 0
  /\ parked = NoRun
  /\ lazy = NoLazy
  /\ fam = NoFam
  /\ fns = <<>>
  /\ log = <<>>
  /\ writes = <<>>

NextCurry ==
  \/ CurryCreate
  \/ CurriedFnCall
  \/ POJOCurryCreate
  \/ POJOCurriedFnCall

SpecCurry == InitCurry /\ [][NextCurry]_vars

(* ---------------------- notions used by the claims -------------------- *)

\* the input array and its length
Input == heap[items]
N == Len(Input)

\* the size requested from the generator
K == gen.numberOfItemsPerCombination

\* the binomial coefficient, by Pascal's rule
RECURSIVE Binomial(_, _)
Binomial(n, k) ==
  IF k < 0 \/ k > n THEN 0
  ELSE IF k = 0 \/ k = n THEN 1
  ELSE Binomial(n - 1, k - 1) + Binomial(n - 1, k)

RECURSIVE Pow2(_)
Pow2(n) == IF n = 0 THEN 1 ELSE 2 * Pow2(n - 1)

\* the set of positions of an index tuple
IdxSet(t) == { t[d] : d \in DOMAIN t }

\* all sets of k positions of an input of length n
KSubsets(n, k) == { S \in SUBSET (0 .. (n - 1)) : Cardinality(S) = k }

\* strictly increasing tuple of positions of an input of length n
IsIncreasing(t, n) ==
  /\ \A d \in DOMAIN t : t[d] >= 0 /\ t[d] < n
  /\ \A d \in DOMAIN t : d > 1 => t[d - 1] < t[d]

\* the elements of the input at the positions of a tuple
Select(t) == [d \in DOMAIN t |-> Input[t[d] + 1]]

\* standard (lexicographic) order of tuples of the same length
LexLess(s, t) ==
  \E d \in DOMAIN s :
    /\ d \in DOMAIN t
    /\ s[d] < t[d]
    /\ \A e \in 1 .. (d - 1) : s[e] = t[e]

\* a direct run of the generator with a size the documentation allows
DirectRun == caller = "consumer" /\ gen.state # "absent"
InRange == DirectRun /\ 1 <= K /\ K <= N

Completed == gen.state = "completed"

(* -------------------------------- claims ------------------------------ *)

\* C1: for 1 <= k <= n a fully consumed run yields exactly C(n,k)
\* combinations (never more on the way), each of length exactly k, also
\* when the input holds equal values.
C1_CountAndLength ==
  InRange =>
    /\ \A p \in DOMAIN gen.emitted : Len(gen.emitted[p].snap) = K
    /\ Len(gen.emitted) <= Binomial(N, K)
    /\ Completed => Len(gen.emitted) = Binomial(N, K)

C1_Witness ==
  /\ InRange /\ Completed
  /\ N = 4 /\ K = 2 /\ Len(gen.emitted) = 6
  /\ Input[1] = Input[2]

\* C2: for 1 <= k <= n the position sets of the yielded combinations are
\* pairwise distinct size-k subsets of 0..n-1, and at completion they are
\* all of them.
C2_DistinctAndExhaustive ==
  InRange =>
    /\ \A p, q \in DOMAIN gen.emitted :
         p # q => IdxSet(gen.emitted[p].idx) # IdxSet(gen.emitted[q].idx)
    /\ \A p \in DOMAIN gen.emitted :
         IdxSet(gen.emitted[p].idx) \in KSubsets(N, K)
    /\ Completed =>
         { IdxSet(gen.emitted[p].idx) : p \in DOMAIN gen.emitted }
           = KSubsets(N, K)

C2_Witness ==
  /\ InRange /\ Completed
  /\ N = 4 /\ K = 3
  /\ { IdxSet(gen.emitted[p].idx) : p \in DOMAIN gen.emitted }
       = { {0, 1, 2}, {0, 1, 3}, {0, 2, 3}, {1, 2, 3} }

\* C3: every yielded combination is items[i1], ..., items[ik] for
\* positions i1 < ... < ik of the input.
C3_OrderPreserving ==
  \A p \in DOMAIN gen.emitted :
    /\ IsIncreasing(gen.emitted[p].idx, N)
    /\ gen.emitted[p].snap = Select(gen.emitted[p].idx)

C3_Witness ==
  /\ DirectRun
  /\ Input = << "a", "b", "c", "a" >>
  /\ \E p \in DOMAIN gen.emitted :
       /\ gen.emitted[p].idx = << 1, 3 >>
       /\ gen.emitted[p].snap = << "b", "a" >>

\* C4: consecutive emissions have strictly increasing index tuples in the
\* standard tuple order; for n = 4, k = 2 the order is
\* (0,1),(0,2),(0,3),(1,2),(1,3),(2,3).
C4_LexicographicOrder ==
  /\ \A p \in DOMAIN gen.emitted :
       p > 1 => LexLess(gen.emitted[p - 1].idx, gen.emitted[p].idx)
  /\ (DirectRun /\ Completed /\ N = 4 /\ K = 2) =>
       [p \in DOMAIN gen.emitted |-> gen.emitted[p].idx]
         = << <<0, 1>>, <<0, 2>>, <<0, 3>>, <<1, 2>>, <<1, 3>>, <<2, 3>> >>

C4_Witness ==
  /\ DirectRun /\ Completed /\ N = 4 /\ K = 2
  /\ Len(gen.emitted) = 6
  /\ gen.emitted[3].idx = <<0, 3>> /\ gen.emitted[4].idx = <<1, 2>>

\* the list returned by uniqueProgressiveIncrementalCombinations
Returned == caller = "upic" /\ upic.pc = "returned"

\* the arrays of the returned list, by content, and their positions
ResultContents == [p \in DOMAIN upic.result |-> heap[upic.result[p].ref]]
ResultTuples == [p \in DOMAIN upic.result |-> upic.result[p].idx]

\* all strictly increasing k-tuples of positions of an input of length n
IncTuples(n, k) == { t \in [1 .. k -> 0 .. (n - 1)] : IsIncreasing(t, n) }

\* a set of tuples of one length as a sequence in lexicographic order
RECURSIVE LexSorted(_)
LexSorted(S) ==
  IF S = {} THEN <<>>
  ELSE LET m == CHOOSE t \in S : \A u \in S \ {t} : LexLess(t, u)
       IN  << m >> \o LexSorted(S \ {m})

\* the sizes from k up to, and excluding, n, each in lexicographic order
RECURSIVE GenericSizes(_, _)
GenericSizes(k, n) ==
  IF k >= n THEN <<>>
  ELSE LexSorted(IncTuples(n, k)) \o GenericSizes(k + 1, n)

\* singletons in input order, then the sizes 2 .. n-1, then the whole input
ExpectedTuples(n) ==
  [j \in 1 .. n |-> << j - 1 >>] \o GenericSizes(2, n) \o << WholeTuple(n) >>

\* C5: for n >= 1 the returned list has exactly 2^n - 1 combinations and
\* their position sets are the non-empty subsets of 0..n-1, each once.
C5_AllNonEmptySubsets ==
  (Returned /\ N >= 1) =>
    /\ Len(upic.result) = Pow2(N) - 1
    /\ { IdxSet(ResultTuples[p]) : p \in DOMAIN upic.result }
         = (SUBSET (0 .. (N - 1))) \ { {} }
    /\ \A p, q \in DOMAIN upic.result :
         p # q => IdxSet(ResultTuples[p]) # IdxSet(ResultTuples[q])
    /\ \A p \in DOMAIN upic.result :
         /\ IsIncreasing(ResultTuples[p], N)
         /\ ResultContents[p] = Select(ResultTuples[p])

C5_Witness ==
  /\ Returned /\ N = 4 /\ Len(upic.result) = 15
  /\ Input[1] = Input[3]

\* C6: for n >= 2 the returned list is the n singletons in input order,
\* then (only when n > 2) the sizes 2 .. n-1 ascending, each in the
\* generator's lexicographic order, then the whole input once;
\* [a,b] gives [[a],[b],[a,b]] and [a,b,c] gives
\* [[a],[b],[c],[a,b],[a,c],[b,c],[a,b,c]].
C6_ProgressiveOrder ==
  (Returned /\ N >= 2) =>
    /\ ResultTuples = ExpectedTuples(N)
    /\ ResultContents = [p \in DOMAIN upic.result |-> Select(ResultTuples[p])]
    /\ Input = << "a", "b" >> =>
         ResultContents = << <<"a">>, <<"b">>, <<"a", "b">> >>
    /\ Input = << "a", "b", "c" >> =>
         ResultContents = << <<"a">>, <<"b">>, <<"c">>, <<"a", "b">>,
                             <<"a", "c">>, <<"b", "c">>, <<"a", "b", "c">> >>

C6_Witness ==
  /\ Returned /\ N = 4
  /\ ResultTuples[5] = <<0, 1>> /\ ResultTuples[10] = <<2, 3>>
  /\ ResultTuples[11] = <<0, 1, 2>> /\ ResultTuples[14] = <<1, 2, 3>>
  /\ ResultTuples[15] = <<0, 1, 2, 3>>

\* C7: on an empty input the call returns an empty list; no generator is
\* created and no array is allocated on the way.
C7_EmptyInput ==
  (caller = "upic" /\ N = 0) =>
    /\ upic.pc = "returned"
    /\ upic.result = <<>>
    /\ gen = NoGen
    /\ heap = << <<>> >>

C7_Witness == Returned /\ N = 0 /\ upic.result = <<>>

\* C8: on a one-element input [x] the call returns exactly one
\* combination, [x], held in an array that is not the input array.
C8_SingleInput ==
  (caller = "upic" /\ N = 1) =>
    /\ upic.pc = "returned"
    /\ Len(upic.result) = 1
    /\ ResultContents[1] = Input
    /\ upic.result[1].ref # items
    /\ gen = NoGen

C8_Witness ==
  /\ Returned /\ Input = << "b" >>
  /\ ResultContents = << << "b" >> >>
  /\ upic.result[1].ref = 2

\* C9: with yieldCopy = true every yielded combination is an array of its
\* own (not the prefix buffer, not the input, not another yielded array)
\* and keeps the contents it was emitted with through all further pulls,
\* exhaustion included.
C9_CopyIndependence ==
  (DirectRun /\ gen.yieldCopy) =>
    \A p \in DOMAIN gen.emitted :
      /\ heap[gen.emitted[p].ref] = gen.emitted[p].snap
      /\ gen.emitted[p].ref # gen.prefix
      /\ gen.emitted[p].ref # items
      /\ \A q \in DOMAIN gen.emitted :
           p # q => gen.emitted[p].ref # gen.emitted[q].ref

C9_Witness ==
  /\ DirectRun /\ gen.yieldCopy /\ Completed /\ pulls = MaxPullsAfterDone
  /\ N = 4 /\ K = 2 /\ Len(gen.emitted) = 6
  /\ heap[gen.emitted[1].ref] = << Input[1], Input[2] >>
  /\ heap[gen.prefix] = <<>>

\* the emission made last
LastEmitted == gen.emitted[Len(gen.emitted)]

NoCopyRun == DirectRun /\ ~ gen.yieldCopy

\* C10 as stated: with yieldCopy = false every yielded item is the prefix
\* buffer, which holds the current combination until the next pull, and once
\* the generator has been advanced a reference retained from an earlier
\* emission no longer shows the combination it was emitted with.
C10_RetainedAlwaysDiffers ==
  (NoCopyRun /\ 1 <= K /\ K <= N) =>
    /\ \A p \in DOMAIN gen.emitted : gen.emitted[p].ref = gen.prefix
    /\ gen.state = "suspendedYield" =>
         heap[gen.prefix] = Select(LastEmitted.idx)
    /\ \A p \in DOMAIN gen.emitted :
         (gen.state \in {"suspendedYield", "completed"}
            /\ (p < Len(gen.emitted) \/ Completed))
           => heap[gen.emitted[p].ref] # gen.emitted[p].snap

\* C10 amended: with yieldCopy = false every yielded item is the prefix
\* buffer; from an emission until the next pull it holds exactly the
\* current combination; after a later emission a retained reference shows
\* that later combination, whose index tuple differs from the earlier one
\* and whose contents differ from it exactly when the input elements at
\* the two tuples differ; after exhaustion with k >= 1 it shows an empty
\* array.
C10_SharedBuffer ==
  NoCopyRun =>
    /\ \A p \in DOMAIN gen.emitted : gen.emitted[p].ref = gen.prefix
    /\ gen.state = "suspendedYield" =>
         /\ heap[gen.prefix] = Select(LastEmitted.idx)
         /\ heap[gen.prefix] = LastEmitted.snap
         /\ \A p \in 1 .. (Len(gen.emitted) - 1) :
              /\ heap[gen.emitted[p].ref] = Select(LastEmitted.idx)
              /\ gen.emitted[p].idx # LastEmitted.idx
              /\ (heap[gen.emitted[p].ref] # gen.emitted[p].snap)
                   <=> (Select(gen.emitted[p].idx) # Select(LastEmitted.idx))
    /\ (Completed /\ K >= 1) =>
         \A p \in DOMAIN gen.emitted :
           /\ heap[gen.emitted[p].ref] = <<>>
           /\ heap[gen.emitted[p].ref] # gen.emitted[p].snap

C10_Witness ==
  /\ NoCopyRun /\ gen.state = "suspendedYield"
  /\ Input = << "a", "a", "b" >> /\ K = 2
  /\ Len(gen.emitted) = 3
  /\ gen.emitted[1].snap = << "a", "a" >>
  /\ gen.emitted[2].snap = << "a", "b" >>
  /\ heap[gen.emitted[1].ref] = << "a", "b" >>
  /\ heap[gen.emitted[2].ref] = << "a", "b" >>

\* C11: no step of the generator (either copy mode, consumed to the end or
\* left suspended after any number of pulls) and no step of
\* uniqueProgressiveIncrementalCombinations changes the length or the
\* elements of the input array.
C11_InputNeverWritten == [][heap'[items] = heap[items]]_vars

C11_Witness ==
  /\ DirectRun /\ ~ gen.yieldCopy
  /\ gen.state = "suspendedYield" /\ K = 2 /\ Len(gen.emitted) = 2
  /\ Input = << "a", "b", "c" >>
  /\ heap[gen.prefix] = << "a", "c" >>

\* C13: for 1 <= k <= n every pull that yields returns the combination just
\* emitted, at most C(n,k) of them; the generator completes after exactly
\* C(n,k) emissions and reports done; a completed generator stays
\* completed, keeps reporting done and emits nothing more.
C13_FiniteSinglePass ==
  /\ [](InRange =>
         /\ Len(gen.emitted) <= Binomial(N, K)
         /\ gen.state = "suspendedYield" =>
              /\ ~ gen.out.done
              /\ gen.out.value = LastEmitted.ref
         /\ Completed =>
              /\ gen.out.done
              /\ gen.out.value = NoRef
              /\ Len(gen.emitted) = Binomial(N, K))
  /\ [][(InRange /\ Completed) =>
          /\ gen'.state = "completed"
          /\ gen'.out.done
          /\ gen'.emitted = gen.emitted]_vars
  /\ ((InRange /\ gen.state = "executing") ~> (gen.state # "executing"))

C13_Witness ==
  /\ InRange /\ Completed /\ pulls = MaxPullsAfterDone
  /\ N = 4 /\ K = 3 /\ Len(gen.emitted) = 4
  /\ gen.out.done

\* a direct run with a size larger than the input
TooLarge == DirectRun /\ K > N

\* C14: with k > n (any k >= 1 on an empty input included) nothing is ever
\* emitted, nothing is pushed on the prefix, and the first pull runs to
\* completion.
C14_TooLargeYieldsNothing ==
  /\ [](TooLarge =>
         /\ gen.emitted = <<>>
         /\ gen.state # "suspendedYield"
         /\ gen.prefix # NoRef => heap[gen.prefix] = <<>>
         /\ Completed => gen.out.done)
  /\ ((TooLarge /\ gen.state = "executing") ~> Completed)

C14_Witness ==
  /\ TooLarge /\ Completed /\ N = 0 /\ K = 1
  /\ gen.emitted = <<>> /\ gen.out.done

\* a direct run with a size of zero or less
NonPositive == DirectRun /\ K <= 0

\* C15 as stated: with k <= 0 no combination at all is emitted, the empty
\* combination included.
C15_NonPositiveYieldsNothing == NonPositive => gen.emitted = <<>>

\* C15 amended: with k < 0 nothing is emitted and the pull runs to
\* completion; with k = 0 exactly one combination is emitted, the empty
\* one, by the first pull, and the second pull completes the generator.
C15_NonPositiveSizes ==
  /\ []((NonPositive /\ K < 0) =>
          /\ gen.emitted = <<>>
          /\ gen.state # "suspendedYield")
  /\ []((NonPositive /\ K = 0) =>
          /\ Len(gen.emitted) <= 1
          /\ \A p \in DOMAIN gen.emitted :
               gen.emitted[p].snap = <<>> /\ gen.emitted[p].idx = <<>>
          /\ gen.state \in {"suspendedYield", "completed"}
               => Len(gen.emitted) = 1)
  /\ ((NonPositive /\ gen.state = "executing") ~> (gen.state # "executing"))
  /\ ((NonPositive /\ K < 0 /\ gen.state = "executing") ~> Completed)

C15_Witness ==
  /\ NonPositive /\ K = 0 /\ Completed /\ N = 3
  /\ Len(gen.emitted) = 1 /\ gen.emitted[1].snap = <<>>

\* the smaller of two numbers
Min(a, b) == IF a <= b THEN a ELSE b

\* two generators on the same items with the same size
TwoGenerators == caller = "consumer" /\ parked.caller = "consumer"

\* two returned calls of uniqueProgressiveIncrementalCombinations
TwoCalls ==
  /\ caller = "upic" /\ upic.pc = "returned"
  /\ parked.caller = "upic"

\* the arrays of a returned list, by content
ContentsOf(list) == [p \in DOMAIN list |-> heap[list[p].ref]]

\* C12: two generators on the same items and size, pulled in any
\* interleaved order and in either copy mode, emit the same combinations
\* (same positions, same contents at emission) in the same order, and the
\* same number of them once both are completed; two calls of
\* uniqueProgressiveIncrementalCombinations on the same input return lists
\* with equal contents.
C12_Deterministic ==
  /\ TwoGenerators =>
       /\ \A p \in 1 .. Min(Len(gen.emitted), Len(parked.gen.emitted)) :
            /\ gen.emitted[p].idx = parked.gen.emitted[p].idx
            /\ gen.emitted[p].snap = parked.gen.emitted[p].snap
       /\ (gen.state = "completed" /\ parked.gen.state = "completed")
            => Len(gen.emitted) = Len(parked.gen.emitted)
       /\ gen.state = "suspendedYield" =>
            heap[gen.out.value] = Select(LastEmitted.idx)
  /\ TwoCalls =>
       ContentsOf(upic.result) = ContentsOf(parked.upic.result)

\* both generators were advanced in turns and both are completed
C12_Witness ==
  /\ TwoGenerators
  /\ gen.state = "completed" /\ parked.gen.state = "completed"
  /\ ~ gen.yieldCopy /\ ~ parked.gen.yieldCopy
  /\ N = 3 /\ K = 2
  /\ Len(gen.emitted) = 3 /\ Len(parked.gen.emitted) = 3
  /\ gen.prefix = 2 /\ parked.gen.prefix = 3

\* the eager list has been returned and kept, and the lazy variant has
\* then been consumed to the end on the same input
EagerThenLazy ==
  /\ parked.caller = "upic"
  /\ caller = "lazy" /\ lazy.pc = "done"

\* C16: the lazy progressive variant, consumed to the end, has emitted the
\* same combinations (same contents, same positions) in the same order as
\* the list the eager function returned on the same input.
C16_LazyEqualsEager ==
  EagerThenLazy =>
    /\ ContentsOf(lazy.out) = ContentsOf(parked.upic.result)
    /\ [p \in DOMAIN lazy.out |-> lazy.out[p].idx]
         = [p \in DOMAIN parked.upic.result |-> parked.upic.result[p].idx]

C16_Witness ==
  /\ EagerThenLazy
  /\ Input = << "a", "b", "a" >>
  /\ Len(lazy.out) = 7
  /\ ContentsOf(lazy.out)[5] = << "a", "a" >>
  /\ ContentsOf(parked.upic.result)[5] = << "a", "a" >>


(* --------------------------- claims on curry -------------------------- *)

\* the arguments of all calls of a chain, in the order they were supplied
RECURSIVE Flatten(_)
Flatten(chain) ==
  IF chain = <<>> THEN <<>> ELSE Head(chain) \o Flatten(Tail(chain))

\* no call of the chain passed a placeholder
PlaceholderFree(chain) ==
  \A i \in DOMAIN chain : \A j \in DOMAIN chain[i] :
    chain[i][j] # Placeholder

\* the chain reaches the arity with its last call, and not before
FirstToReach(chain, n) ==
  /\ Len(Flatten(chain)) >= n
  /\ \A m \in 1 .. (Len(chain) - 1) : Len(Flatten(SubSeq(chain, 1, m))) < n

\* C17: with curry(fn) for fn of arity N and calls that pass no placeholder,
\* a call returns a new curried function exactly while the arguments
\* supplied along its chain are fewer than N, and the first call of a chain
\* that reaches N invokes fn exactly once with all the arguments of the
\* chain in the order supplied, however they were grouped into calls
C17_CurryEqualsDirectCall ==
  (fam.kind = "curry" /\ ~ fam.onFnCall) =>
    \A i \in DOMAIN log :
      PlaceholderFree(log[i].chain) =>
        /\ log[i].ev = "returnCurried" =>
             Len(Flatten(log[i].chain)) < fam.expectedNumberOfArgs
        /\ log[i].ev = "returnFn" =>
             /\ FirstToReach(log[i].chain, fam.expectedNumberOfArgs)
             /\ log[i - 1].ev = "fn"
             /\ log[i - 2].ev # "fn"
        /\ log[i].ev = "fn" => log[i].args = Flatten(log[i].chain)

\* C18: whenever curry invokes onFnCall or fn, no position of args is the
\* placeholder
C18_NoPlaceholderReachesFn ==
  fam.kind = "curry" =>
    \A i \in DOMAIN log :
      log[i].ev \in {"onFnCall", "fn"} =>
        \A j \in DOMAIN log[i].args : log[i].args[j] # Placeholder

\* C19: with an onFnCall callback given to curry or POJOCurry, fn is invoked
\* if and only if the callback returned proceedCallingFn, and the call then
\* returns fn's result; otherwise fn is not invoked and the call returns
\* what the callback returned
C19_FnCalledIffProceed ==
  fam.onFnCall =>
    \A i \in DOMAIN log :
      /\ log[i].ev = "onFnCall" =>
           IF log[i].ret = "proceedCallingFn"
           THEN /\ i + 2 <= Len(log)
                /\ log[i + 1].ev = "fn"
                /\ log[i + 2].ev = "returnFn"
           ELSE /\ i + 1 <= Len(log)
                /\ log[i + 1].ev = "returnOther"
      /\ log[i].ev = "fn" =>
           /\ log[i - 1].ev = "onFnCall"
           /\ log[i - 1].ret = "proceedCallingFn"
      /\ log[i].ev = "returnFn" => log[i - 1].ev = "fn"
      /\ log[i].ev = "returnOther" => log[i - 1].ev = "onFnCall"

\* a POJOCurry family whose callback has refused one call and let another
\* proceed
C19_Witness ==
  /\ fam.kind = "pojo"
  /\ fam.onFnCall
  /\ \E i \in DOMAIN log : log[i].ev = "returnOther"
  /\ \E i \in DOMAIN log : log[i].ev = "returnFn"

\* the positions of the log where onCurriedFnFirstCall was invoked
FirstCallIndices ==
  { i \in DOMAIN log : log[i].ev = "onCurriedFnFirstCall" }

\* C20: for one curry or POJOCurry call, onCurriedFnFirstCall is invoked
\* exactly once, on the first invocation of a curried function of the family
\* and before anything else that invocation does, and never again on a later
\* invocation of the same or of a derived curried function
C20_FirstCallOnce ==
  fam.onCurriedFnFirstCall =>
    /\ fam.calls = 0 => FirstCallIndices = {}
    /\ fam.calls >= 1 => FirstCallIndices = {2} /\ log[2].f = 1

\* after the first invocation, a curried function derived from the first one
\* has been invoked too
C20_Witness ==
  /\ fam.onCurriedFnFirstCall
  /\ fam.calls >= 2
  /\ \E i \in DOMAIN log : log[i].f = 2 /\ log[i].ev = "returnFn"


\* the events that end a call of a curried function
Returns == {"returnCurried", "returnFn", "returnOther"}

\* the positions of the log that belong to the call ending at position i
CallEvents(i) ==
  { j \in 2 .. i : \A m \in j .. (i - 1) : log[m].ev \notin Returns }

\* C21: onNewCurriedFn is invoked once when curry returns, with curriedFn
\* and newCurriedFn the same function, then exactly once for every call of
\* a curried function that returns a new curried function, with curriedFn
\* the function called and newCurriedFn the function returned, and never for
\* a call that ends in fn or onFnCall
C21_NewCurriedFnAnnounced ==
  (fam.kind = "curry") =>
    /\ log[1].ev = "onNewCurriedFn" /\ log[1].f = 1 /\ log[1].g = 1
    /\ \A i \in DOMAIN log :
         log[i].ev \in Returns =>
           LET announced ==
                 { j \in CallEvents(i) : log[j].ev = "onNewCurriedFn" }
           IN  IF log[i].ev = "returnCurried"
               THEN /\ announced = {i - 1}
                    /\ log[i - 1].f = log[i].f
                    /\ log[i - 1].g = log[i].g
                    /\ log[i].g # log[i].f
               ELSE announced = {}

\* a family in which one call returned a new curried function and another
\* ended in fn
C21_Witness ==
  /\ fam.kind = "curry"
  /\ \E i \in DOMAIN log : log[i].ev = "returnCurried"
  /\ \E i \in DOMAIN log : log[i].ev = "returnFn"


\* the last object of a chain that owns the property k
LastOwner(chain, k) ==
  CHOOSE i \in DOMAIN chain :
    /\ k \in DOMAIN chain[i]
    /\ \A j \in DOMAIN chain : j > i => k \notin DOMAIN chain[j]

\* the objects of a chain merged, a later property overriding an earlier one
MergeAll(chain) ==
  [k \in UNION { DOMAIN chain[i] : i \in DOMAIN chain } |->
     chain[LastOwner(chain, k)][k]]

\* the merged object asks for the call of fn
Plugs(obj) ==
  /\ plugPropertyName \in DOMAIN obj
  /\ fam.plugPropertyMustBeTruthy => obj[plugPropertyName] = 1

\* C22: POJOCurry(fn) returns a new curried function while the merge of all
\* objects passed so far does not own the plug property (or owns it with a
\* falsy value when plugPropertyMustBeTruthy is true); the first call where
\* it does invokes fn once, with that merge less the plug property
C22_POJOCurryMerges ==
  (fam.kind = "pojo" /\ ~ fam.onFnCall) =>
    \A i \in DOMAIN log :
      /\ log[i].ev = "returnCurried" => ~ Plugs(MergeAll(log[i].chain))
      /\ log[i].ev = "returnFn" =>
           /\ Plugs(MergeAll(log[i].chain))
           /\ \A m \in 1 .. (Len(log[i].chain) - 1) :
                ~ Plugs(MergeAll(SubSeq(log[i].chain, 1, m)))
           /\ { j \in CallEvents(i) : log[j].ev = "fn" } = {i - 1}
           /\ log[i - 1].args =
                [k \in DOMAIN MergeAll(log[i].chain) \ {plugPropertyName} |->
                   MergeAll(log[i].chain)[k]]

\* fn was called after two calls, the second overriding a property of the
\* first, with plugPropertyMustBeTruthy and a falsy plug passed first
C22_Witness ==
  /\ fam.kind = "pojo" /\ ~ fam.onFnCall /\ fam.plugPropertyMustBeTruthy
  /\ \E i \in DOMAIN log :
       /\ log[i].ev = "fn"
       /\ Len(log[i].chain) = 2
       /\ log[i].chain[1] = [p |-> 0, plugCurried |-> 0]
       /\ log[i].chain[2] = [p |-> 1, plugCurried |-> 1]
       /\ log[i].args = [p |-> 1]


(* ------------------- claims on the backtracking search ---------------- *)

\* a run of the generator, direct or inside
\* uniqueProgressiveIncrementalCombinations, with 1 <= k <= n
RunInRange == gen.state # "absent" /\ 1 <= K /\ K <= N

\* the positions chosen by the frames 1 .. d
ChosenUpTo(d) == [e \in 1 .. d |-> gen.stack[e].i]

\* C23: for 1 <= k <= n, at every recursion frame the number of elements
\* still needed is at most the number of positions still available
\* (k - prefix.length <= n - nextIndex), and when a pushed element is about
\* to be popped at least one combination starting with the positions chosen
\* so far has been emitted
C23_NoDeadEnd ==
  RunInRange =>
    /\ \A d \in DOMAIN gen.stack :
         K - (d - 1) <= N - gen.stack[d].nextIndex
    /\ gen.stack # <<>> =>
         K - ArrayLength(heap, gen.prefix) <= N - Top(gen).nextIndex
    /\ (gen.state = "executing" /\ gen.stack # <<>> /\ Top(gen).at = "call") =>
         \E p \in DOMAIN gen.emitted :
           SubSeq(gen.emitted[p].idx, 1, Len(gen.stack))
             = ChosenUpTo(Len(gen.stack))

\* for n = 4, k = 2 the outermost frame is about to pop position 2, the last
\* one it may choose
C23_Witness ==
  /\ RunInRange /\ N = 4 /\ K = 2
  /\ gen.state = "executing" /\ Len(gen.stack) = 1
  /\ Top(gen).at = "call" /\ Top(gen).i = 2


\* the frames whose loop body has pushed an element not yet popped
Pushing == { d \in DOMAIN gen.stack : gen.stack[d].at = "call" }

\* C24: in every state of a run with 1 <= k <= n the prefix buffer holds at
\* most k elements, as many as there are recursive steps in progress, and
\* exactly the elements those steps chose, so that a step that returns
\* leaves the buffer as it found it; when the generator has completed the
\* buffer is empty
C24_BacktrackingDiscipline ==
  (RunInRange /\ gen.state # "suspendedStart") =>
    /\ ArrayLength(heap, gen.prefix) <= K
    /\ ArrayLength(heap, gen.prefix) = Cardinality(Pushing)
    /\ Pushing = 1 .. Cardinality(Pushing)
    /\ Cardinality(Pushing) >= Len(gen.stack) - 1
    /\ heap[gen.prefix] =
         [d \in 1 .. Cardinality(Pushing) |-> Input[gen.stack[d].i + 1]]
    /\ Completed => heap[gen.prefix] = <<>>

\* a completed run of n = 4, k = 3 on which the buffer, once three deep, is
\* empty again
C24_Witness ==
  /\ RunInRange /\ Completed /\ N = 4 /\ K = 3
  /\ Len(gen.emitted) = 4
  /\ heap[gen.prefix] = <<>>


\* the effective arguments of an argument list, in order
Effective(addedArgs) == SelectSeq(addedArgs, LAMBDA x : x # Placeholder)

\* an argument list less its first m effective arguments
RECURSIVE AfterFilling(_, _)
AfterFilling(addedArgs, m) ==
  IF addedArgs = <<>> THEN <<>>
  ELSE IF Head(addedArgs) # Placeholder /\ m > 0
       THEN AfterFilling(Tail(addedArgs), m - 1)
       ELSE << Head(addedArgs) >> \o AfterFilling(Tail(addedArgs), m)

\* the parameter indices n, n + 1, ... at which a list holds a placeholder
RECURSIVE PlaceholdersFrom(_, _)
PlaceholdersFrom(list, n) ==
  IF list = <<>> THEN <<>>
  ELSE (IF Head(list) = Placeholder THEN << n >> ELSE <<>>)
       \o PlaceholdersFrom(Tail(list), n + 1)

\* C26: in a call of a curried function that has pending placeholders from
\* earlier calls, the effective arguments fill the pending positions in the
\* order these were introduced, and a filled position is no longer pending;
\* the effective arguments beyond the pending positions, and every new
\* placeholder, take the next fresh parameter indices in order
C26_PlaceholdersFirstInFirstFilled ==
  fam.kind = "curry" =>
    \A i \in DOMAIN log :
      log[i].ev \in Returns =>
        LET addedArgs == log[i].chain[Len(log[i].chain)]
            pending == fns[log[i].f].placeholdersIndices
            next == fns[log[i].f].nextParameterIndex
            m == Min(Len(Effective(addedArgs)), Len(pending))
            fresh == AfterFilling(addedArgs, m)
        IN  /\ \A j \in 1 .. m :
                 log[i].args[pending[j] + 1] = Effective(addedArgs)[j]
            /\ \A r \in DOMAIN fresh : log[i].args[next + r] = fresh[r]
            /\ \A j \in DOMAIN pending :
                 j > 1 => pending[j - 1] < pending[j]
            /\ log[i].ev = "returnCurried" =>
                 /\ fns[log[i].g].placeholdersIndices =
                      SubSeq(pending, m + 1, Len(pending))
                        \o PlaceholdersFrom(fresh, next)
                 /\ fns[log[i].g].nextParameterIndex = next + Len(fresh)

\* after f(_, _), the call g(1) has put 1 at position 0 and left position 1
\* pending
C26_Witness ==
  /\ fam.kind = "curry"
  /\ \E i \in DOMAIN log :
       /\ log[i].ev = "returnCurried"
       /\ log[i].chain = << << Placeholder, Placeholder >>, << 1 >> >>
       /\ log[i].args = << 1, Placeholder >>
       /\ fns[log[i].g].placeholdersIndices = << 1 >>


\* the arguments a curried function held when it was made
ArgsAtCreation(f) ==
  IF f = 1 THEN <<>>
  ELSE LET i == CHOOSE j \in DOMAIN log :
                  log[j].ev = "returnCurried" /\ log[j].g = f
       IN  log[i].args

\* a curried function as it was made
AsCreated(f) == [fns[f] EXCEPT !.args = ArgsAtCreation(f)]

\* C28: a curried function is reusable: invoking it changes nothing of the
\* arguments, placeholder positions and remaining count it holds, so that
\* whatever its earlier invocations received, an invocation passes fn the
\* argument list that the function as it was made gives for these arguments
C28_CurriedFnReusable ==
  fam.kind = "curry" =>
    /\ \A f \in DOMAIN fns : fns[f] = AsCreated(f)
    /\ \A i \in DOMAIN log :
         log[i].ev = "fn" =>
           log[i].args =
             AddArgs(LoopStart(AsCreated(log[i].f)), AsCreated(log[i].f),
                     log[i].f, log[i].chain[Len(log[i].chain)], 1).args


(* ------------- claims on the progressive list, continued -------------- *)

\* C(n,1) + ... + C(n,k)
RECURSIVE BinomialSum(_, _)
BinomialSum(n, k) ==
  IF k <= 0 THEN 0 ELSE BinomialSum(n, k - 1) + Binomial(n, k)

\* the list has been returned and a generator of a size 1 .. n, run
\* afterwards on the same input, has completed
ListThenGenerator ==
  /\ parked.caller = "upic" /\ parked.upic.pc = "returned"
  /\ caller = "consumer" /\ Completed
  /\ 1 <= K /\ K <= N

\* C29: for n >= 1 the returned list is, element by element and in order,
\* the outputs of the fixed-size generator for k = 1, ..., n one after the
\* other: it is as long as these outputs together, and the output of size k
\* is found, in order, after the outputs of the smaller sizes
C29_ConcatenationOfSizes ==
  ListThenGenerator =>
    /\ Len(parked.upic.result) = BinomialSum(N, N)
    /\ Len(gen.emitted) = Binomial(N, K)
    /\ \A p \in DOMAIN gen.emitted :
         LET e == parked.upic.result[BinomialSum(N, K - 1) + p]
         IN  /\ heap[e.ref] = gen.emitted[p].snap
             /\ e.idx = gen.emitted[p].idx

\* after the list of a three-element input, the generator of size 1 has
\* given the three singletons
C29_Witness ==
  /\ ListThenGenerator
  /\ N = 3 /\ K = 1 /\ Len(gen.emitted) = 3
  /\ gen.emitted[2].snap = heap[parked.upic.result[2].ref]


(* ------------------ claims on writes made by the caller --------------- *)

\* the element at depth d of the emission p was already in the prefix, and
\* has stayed there, since the write w
KeptSince(w, p, d) ==
  /\ d <= Len(writes[w].chosen)
  /\ SubSeq(gen.emitted[p].idx, 1, d) = SubSeq(writes[w].chosen, 1, d)

\* the overwrites of the input position taken at depth d of the emission p
\* that were made before that position was appended to the prefix
WritesBeforePush(p, d) ==
  { w \in DOMAIN writes :
      /\ writes[w].kind = "overwrite"
      /\ writes[w].j = gen.emitted[p].idx[d]
      /\ writes[w].at < p
      /\ ~ KeptSince(w, p, d) }

\* the overwrites of the same position that came too late for the emission
\* p, or came while the element was in the prefix
WritesAfterPush(p, d) ==
  { w \in DOMAIN writes :
      /\ writes[w].kind = "overwrite"
      /\ writes[w].j = gen.emitted[p].idx[d]
      /\ w \notin WritesBeforePush(p, d) }

\* the value the input held at the position taken at depth d of the
\* emission p when that position was appended to the prefix
ValueWhenPushed(p, d) ==
  IF WritesBeforePush(p, d) # {}
  THEN writes[CHOOSE w \in WritesBeforePush(p, d) :
                \A v \in WritesBeforePush(p, d) : v <= w].new
  ELSE IF WritesAfterPush(p, d) # {}
  THEN writes[CHOOSE w \in WritesAfterPush(p, d) :
                \A v \in WritesAfterPush(p, d) : w <= v].old
  ELSE Input[gen.emitted[p].idx[d] + 1]

\* a direct run during which the caller only overwrote elements
OverwritesOnly ==
  /\ DirectRun
  /\ \A w \in DOMAIN writes : writes[w].kind = "overwrite"

\* C25: element values are read when they are appended to the prefix: a
\* combination emitted after the caller overwrote items[j] carries the new
\* value where position j was appended after the write, and the old value
\* where the element was already in the prefix at the write and has not been
\* popped since
C25_ValuesReadLazily ==
  (OverwritesOnly /\ 1 <= K) =>
    \A p \in DOMAIN gen.emitted :
      \A d \in DOMAIN gen.emitted[p].idx :
        gen.emitted[p].snap[d] = ValueWhenPushed(p, d)

\* n = 3, k = 2: after [0,1] was emitted the caller overwrote items[0] and
\* items[2]; [0,2] carries the old value at its first place, which was in
\* the prefix all along, and the new value at its second place
C25_Witness ==
  /\ OverwritesOnly /\ Completed /\ K = 2
  /\ Len(writes) = 2
  /\ writes[1].j = 0 /\ writes[1].at = 1
  /\ writes[2].j = 2 /\ writes[2].at = 1
  /\ Input = << "w", "a", "w" >>
  /\ Len(gen.emitted) = 3
  /\ gen.emitted[2].idx = << 0, 2 >> /\ gen.emitted[2].snap = << "a", "w" >>
  /\ gen.emitted[3].idx = << 1, 2 >> /\ gen.emitted[3].snap = << "a", "w" >>

\* the length of the input at the first pull of the generator
LengthAtFirstPull ==
  IF \E w \in DOMAIN writes : writes[w].started
  THEN writes[CHOOSE w \in DOMAIN writes :
                /\ writes[w].started
                /\ \A v \in DOMAIN writes : writes[v].started => w <= v
             ].lenBefore
  ELSE N

\* C27: the length of the input is read once, at the first pull: the index
\* tuples emitted, and their number, are those of the length the input had
\* then, whatever is appended to or removed from the input between later
\* pulls, and whatever its length was when the generator was created
C27_LengthCapturedAtFirstPull ==
  (DirectRun /\ gen.state # "suspendedStart" /\ 1 <= K) =>
    /\ \A p \in DOMAIN gen.emitted :
         /\ Len(gen.emitted[p].idx) = K
         /\ IsIncreasing(gen.emitted[p].idx, LengthAtFirstPull)
         /\ p > 1 => LexLess(gen.emitted[p - 1].idx, gen.emitted[p].idx)
    /\ Len(gen.emitted) <= Binomial(LengthAtFirstPull, K)
    /\ Completed => Len(gen.emitted) = Binomial(LengthAtFirstPull, K)

\* k = 2 on an input of two elements: a third one was appended before the
\* first pull and removed again after the first combination; the three
\* index tuples of a three-element input were emitted
C27_Witness ==
  /\ DirectRun /\ Completed /\ K = 2
  /\ Len(writes) = 2
  /\ writes[1].kind = "append" /\ ~ writes[1].started
  /\ writes[1].lenBefore = 2
  /\ writes[2].kind = "truncate" /\ writes[2].started /\ writes[2].at = 1
  /\ N = 2
  /\ Len(gen.emitted) = 3
  /\ gen.emitted[3].idx = << 1, 2 >>


\* the returned arrays that a step has changed
ChangedByStep ==
  { p \in DOMAIN upic.result :
      heap'[upic.result[p].ref] # heap[upic.result[p].ref] }

\* C30: every array of the returned list is an array of its own: none is the
\* input array, no two are the same array, and a write into the input or
\* into one returned combination after the call changes no other returned
\* combination
C30_FreshArrays ==
  /\ [](Returned =>
          \A p \in DOMAIN upic.result :
            /\ upic.result[p].ref # items
            /\ \A q \in DOMAIN upic.result :
                 p # q => upic.result[p].ref # upic.result[q].ref)
  /\ [][(Returned /\ Returned') =>
          /\ heap'[items] # heap[items] => ChangedByStep = {}
          /\ Cardinality(ChangedByStep) <= 1]_vars

\* the first element of a three-element input was overwritten after the
\* call; the last combination of the list, the copy of the whole input,
\* holds the old value
C30_Witness ==
  /\ Returned /\ N = 3
  /\ Len(writes) = 1 /\ writes[1].kind = "returned" /\ writes[1].ref = items
  /\ Input = << "w", "a", "a" >>
  /\ heap[upic.result[7].ref] = << "a", "a", "a" >>
  /\ heap[upic.result[1].ref] = << "a" >>

====
